---- MODULE Spec2Model ----
(***************************************************************************)
(* Azure Service Bus broker of machinery                                   *)
(* (v1/brokers/servicebus/servicebus.go).                                  *)
(*                                                                         *)
(* The consumption side is modelled as the goroutines the code starts:     *)
(* the caller of StartConsuming (setup, receive loop, the two closes and   *)
(* the return), `concurrency` workers ranging over msgChan, the watcher    *)
(* that cancels the receive context, the transport's invocation of         *)
(* concurrentHandler, and the caller of StopConsuming.  The publish side   *)
(* is the single method Publish.                                           *)
(***************************************************************************)
EXTENDS Integers, Sequences, FiniteSets, TLC

\* ---------------------------------------------------------------- bounds
\* the `concurrency` argument of StartConsuming
Concurrency == 2
\* number of messages the transport hands to the arrival handler
MaxMsgs == 2
\* the clock and the ETAs range over 0..MaxTime
MaxTime == 2
\* number of Publish calls
MaxPublish == 2
\* number of StartConsuming calls on one broker
MaxSessions == 2

Workers == 1..Concurrency
MsgIds == 1..MaxMsgs
\* a nil *servicebus.Message (a worker or handler holding no message)
NoMsg == 0

VARIABLES
    \* --- StartConsuming (the calling goroutine)
    session,        \* number of StartConsuming calls on this broker
    mainPc,         \* position of the caller of StartConsuming
    startRet,       \* <<>> or <<[retry, err]>>: what StartConsuming returned
    ctxCancelled,   \* cancel() of the receive context was called
    msgChan,        \* buffered content of msgChan (message ids, FIFO)
    msgChanClosed,  \* close(msgChan) was executed
    stopReceiving,  \* b.stopReceiving: "open" or "closed"
    \* --- common.Broker
    stopChan,       \* the global stop channel: "open" or "closed"
    retry,          \* b.retry, returned by GetRetry()
    \* --- transport
    delivered,      \* Data of every message handed to the handler, by id
    handlerMsg,     \* message the handler is sending on msgChan, or NoMsg
    panicked,       \* an unrecovered panic ended the process
    \* --- workers
    wPc,            \* position of each worker goroutine
    wMsg,           \* message each worker holds
    wErr,           \* result of taskProcessor.Process held by the worker
    wResCtx,        \* <<>> or <<the context of the worker's resolution call>>
    processingWG,   \* counter of b.processingWG
    log,            \* per message: the calls made for it, in order
    \* --- watcher and StopConsuming
    watcherPc,
    stopPc,
    \* --- Publish
    clock,          \* time.Now().UTC()
    published       \* one record per Publish call

consVars == <<mainPc, startRet, ctxCancelled, msgChan, msgChanClosed,
              stopReceiving, stopChan, retry, delivered, handlerMsg, panicked,
              wPc, wMsg, wErr, wResCtx, processingWG, log, watcherPc, stopPc,
              session>>
pubVars == <<clock, published>>
vars == <<consVars, pubVars,
                   wResCtx, session>>

\* ------------------------------------------------------- message payloads
\* msg.Data as a token sequence: empty, not JSON, and objects carrying name
\* and ignoreWhenTaskNotRegistered ("add" is registered, "nope" is not).
Payloads ==
    { <<>>,
      <<"x">>,
      <<"{", "add", "true", "}">>,
      <<"{", "nope", "false", "}">>,
      <<"{", "nope", "true", "}">> }

\* task names registered with the broker (SetRegisteredTaskNames)
RegisteredTasks == {"add"}

IsTaskRegistered(name) == name \in RegisteredTasks

\* decoder.Decode(sig): ok is FALSE on a decode error; absent fields keep
\* the zero value of tasks.Signature.
Decode(data) ==
    IF Len(data) = 2 /\ data[1] = "{" /\ data[2] = "}"
    THEN [ok |-> TRUE, Name |-> "", IgnoreWhenTaskNotRegistered |-> FALSE]
    ELSE IF Len(data) \in {4, 5} /\ data[1] = "{" /\ data[Len(data)] = "}"
            /\ data[3] \in {"true", "false"}
    THEN [ok |-> TRUE, Name |-> data[2],
          IgnoreWhenTaskNotRegistered |-> (data[3] = "true")]
    ELSE [ok |-> FALSE, Name |-> "", IgnoreWhenTaskNotRegistered |-> FALSE]

Data(m) == delivered[m]

\* ------------------------------------------------------------------ Init
\* the broker after New, before any call; ids are the messages the transport
\* can deliver
InitWith(ids) ==
    /\ mainPc = "idle"
    /\ startRet = <<>>
    /\ ctxCancelled = FALSE
    /\ msgChan = <<>>
    /\ msgChanClosed = FALSE
    /\ stopReceiving = "open"
    /\ stopChan = "open"
    /\ retry = TRUE
    /\ delivered = <<>>
    /\ handlerMsg = NoMsg
    /\ panicked = FALSE
    /\ wPc = [w \in Workers |-> "none"]
    /\ wMsg = [w \in Workers |-> NoMsg]
    /\ wErr = [w \in Workers |-> "none"]
    /\ wResCtx = [w \in Workers |-> <<>>]
    /\ session = 0
    /\ processingWG = 0
    /\ log = [m \in ids |-> <<>>]
    /\ watcherPc = "none"
    /\ stopPc = "idle"
    /\ clock = 0
    /\ published = <<>>

Init == InitWith(MsgIds)

\* ------------------------------------------------------------ primitives
\* (mutant) a receive that leaves the message in the buffer
ChanRecvKeepsHead(ch) == ch

\* the receive of `for msg := range msgChan`: what is left in the buffer
ChanRecv(ch) == Tail(ch)

\* `range msgChan` ends when the channel is closed and its buffer is empty
RangeEnds(ch, closed) == closed /\ ch = <<>>

\* record one call (recv, Process, its result, or a resolution) for m
Logged(m, call) == [log EXCEPT ![m] = Append(@, call)]

\* (mutant) a decode error handled like an unregistered task: abandoned
ConsumeDecisionAbandonsGarbage(data) ==
    IF Len(data) = 0 THEN "DeadLetter"
    ELSE IF ~Decode(data).ok THEN "Abandon"
    ELSE IF ~IsTaskRegistered(Decode(data).Name)
         THEN IF Decode(data).IgnoreWhenTaskNotRegistered
              THEN "DeadLetter"
              ELSE "Abandon"
    ELSE "Process"

\* (mutant) the ignore flag consulted before the registration lookup
ConsumeDecisionFlagFirst(data) ==
    IF Len(data) = 0 THEN "DeadLetter"
    ELSE IF ~Decode(data).ok THEN "DeadLetter"
    ELSE IF Decode(data).IgnoreWhenTaskNotRegistered THEN "DeadLetter"
    ELSE IF ~IsTaskRegistered(Decode(data).Name) THEN "Abandon"
    ELSE "Process"

\* (mutant) an unregistered task always abandoned, whatever its flag
ConsumeDecisionIgnoresFlag(data) ==
    IF Len(data) = 0 THEN "DeadLetter"
    ELSE IF ~Decode(data).ok THEN "DeadLetter"
    ELSE IF ~IsTaskRegistered(Decode(data).Name) THEN "Abandon"
    ELSE "Process"

\* consumeOne up to its first external call: the resolution issued without
\* consulting the processor, or "Process"
ConsumeDecision(data) ==
    IF Len(data) = 0 THEN "DeadLetter"
    ELSE IF ~Decode(data).ok THEN "DeadLetter"
    ELSE IF ~IsTaskRegistered(Decode(data).Name)
         THEN IF Decode(data).IgnoreWhenTaskNotRegistered
              THEN "DeadLetter"
              ELSE "Abandon"
    ELSE "Process"

\* (mutant) the message completed whatever Process returned
AfterProcessAlwaysCompletes(err) == "Complete"

\* consumeOne after taskProcessor.Process returned err
AfterProcess(err) == IF err # "nil" THEN "Abandon" ELSE "Complete"

\* --------------------------------------------------------- StartConsuming
\* Setup: a new cancellable context, the dedicated queue handle
\* (concurrency > 1), a new msgChan, the workers and the watcher goroutine.
\* b.stopReceiving is not made here: it is the channel made in New.
StartConsuming(newQueueOk) ==
    /\ ~panicked
    /\ mainPc = "idle"
    /\ ctxCancelled' = FALSE
    /\ IF Concurrency > 1 /\ ~newQueueOk
       THEN /\ mainPc' = "returned"
            /\ startRet' = <<[retry |-> FALSE, err |-> TRUE]>>
            /\ UNCHANGED <<msgChan, msgChanClosed, wPc, watcherPc>>
       ELSE /\ mainPc' = "loop"
            /\ msgChan' = <<>>
            /\ msgChanClosed' = FALSE
            /\ wPc' = [w \in Workers |-> "recv"]
            /\ watcherPc' = "wait"
            /\ UNCHANGED startRet
    /\ session' = session + 1
    /\ UNCHANGED <<stopReceiving, stopChan, retry, delivered, handlerMsg,
                   panicked, wMsg, wErr, processingWG, log, stopPc, pubVars,
                   wResCtx>>

\* the loop head: queue.Receive(ctx, concurrentHandler) is called
ReceiveCall ==
    /\ ~panicked
    /\ mainPc = "loop"
    /\ mainPc' = "receiving"
    /\ UNCHANGED <<startRet, ctxCancelled, msgChan, msgChanClosed,
                   stopReceiving, stopChan, retry, delivered, handlerMsg,
                   panicked, wPc, wMsg, wErr, processingWG, log, watcherPc,
                   stopPc, pubVars,
                   wResCtx, session>>

\* queue.Receive returns; err == nil breaks the loop, an error is logged and
\* the loop calls Receive again
ReceiveReturn(err) ==
    /\ ~panicked
    /\ mainPc = "receiving"
    /\ mainPc' = IF err = "nil" THEN "closeStop" ELSE "loop"
    /\ UNCHANGED <<startRet, ctxCancelled, msgChan, msgChanClosed,
                   stopReceiving, stopChan, retry, delivered, handlerMsg,
                   panicked, wPc, wMsg, wErr, processingWG, log, watcherPc,
                   stopPc, pubVars,
                   wResCtx, session>>

\* the transport invokes concurrentHandler with a new message, the n-th at
\* most
DeliverUpTo(data, n) ==
    /\ ~panicked
    /\ mainPc = "receiving"
    /\ handlerMsg = NoMsg
    /\ Len(delivered) < n
    /\ delivered' = Append(delivered, data)
    /\ handlerMsg' = Len(delivered) + 1
    /\ UNCHANGED <<mainPc, startRet, ctxCancelled, msgChan, msgChanClosed,
                   stopReceiving, stopChan, retry, panicked, wPc, wMsg, wErr,
                   processingWG, log, watcherPc, stopPc, pubVars,
                   wResCtx, session>>

Deliver(data) == DeliverUpTo(data, MaxMsgs)

\* (mutant) a buffer with one slot more than the concurrency
ChanCapWithSlack == Concurrency + 1

\* make(chan *servicebus.Message, concurrency): the capacity of msgChan
ChanCap == Concurrency

\* (mutant) a send that waits until the buffer is empty
CanSendToEmpty(ch) == ch = <<>>

\* msgChan <- msg can proceed: the buffer has a free slot
CanSend(ch) == Len(ch) < ChanCap

\* msgChan <- msg: blocks while the buffer is full, panics on a closed channel
concurrentHandler ==
    /\ ~panicked
    /\ handlerMsg # NoMsg
    /\ IF msgChanClosed
       THEN /\ panicked' = TRUE
            /\ UNCHANGED <<msgChan, handlerMsg>>
       ELSE /\ CanSend(msgChan)
            /\ msgChan' = Append(msgChan, handlerMsg)
            /\ handlerMsg' = NoMsg
            /\ UNCHANGED panicked
    /\ UNCHANGED <<mainPc, startRet, ctxCancelled, msgChanClosed,
                   stopReceiving, stopChan, retry, delivered, wPc, wMsg, wErr,
                   processingWG, log, watcherPc, stopPc, pubVars,
                   wResCtx, session>>

\* close(b.stopReceiving)
CloseStopReceiving ==
    /\ ~panicked
    /\ mainPc = "closeStop"
    /\ IF stopReceiving = "closed"
       THEN /\ panicked' = TRUE
            /\ UNCHANGED <<mainPc, stopReceiving>>
       ELSE /\ stopReceiving' = "closed"
            /\ mainPc' = "closeChan"
            /\ UNCHANGED panicked
    /\ UNCHANGED <<startRet, ctxCancelled, msgChan, msgChanClosed, stopChan,
                   retry, delivered, handlerMsg, wPc, wMsg, wErr,
                   processingWG, log, watcherPc, stopPc, pubVars,
                   wResCtx, session>>

\* close(msgChan)
CloseMsgChan ==
    /\ ~panicked
    /\ mainPc = "closeChan"
    /\ msgChanClosed' = TRUE
    /\ mainPc' = "return"
    /\ UNCHANGED <<startRet, ctxCancelled, msgChan, stopReceiving, stopChan,
                   retry, delivered, handlerMsg, panicked, wPc, wMsg, wErr,
                   processingWG, log, watcherPc, stopPc, pubVars,
                   wResCtx, session>>

\* return b.GetRetry(), nil
StartReturn ==
    /\ ~panicked
    /\ mainPc = "return"
    /\ startRet' = <<[retry |-> retry, err |-> FALSE]>>
    /\ mainPc' = "returned"
    /\ UNCHANGED <<ctxCancelled, msgChan, msgChanClosed, stopReceiving,
                   stopChan, retry, delivered, handlerMsg, panicked, wPc, wMsg,
                   wErr, processingWG, log, watcherPc, stopPc, pubVars,
                   wResCtx, session>>

\* go func() { <-b.GetStopChan(); cancel() }()
Watcher ==
    /\ ~panicked
    /\ watcherPc = "wait"
    /\ stopChan = "closed"
    /\ ctxCancelled' = TRUE
    /\ watcherPc' = "done"
    /\ UNCHANGED <<mainPc, startRet, msgChan, msgChanClosed, stopReceiving,
                   stopChan, retry, delivered, handlerMsg, panicked, wPc, wMsg,
                   wErr, processingWG, log, stopPc, pubVars,
                   wResCtx, session>>

\* ---------------------------------------------------------------- workers
\* for msg := range msgChan
WorkerRecv(w) ==
    /\ ~panicked
    /\ wPc[w] = "recv"
    /\ \/ /\ RangeEnds(msgChan, msgChanClosed)
          /\ wPc' = [wPc EXCEPT ![w] = "exited"]
          /\ UNCHANGED <<msgChan, wMsg, log>>
       \/ /\ ~RangeEnds(msgChan, msgChanClosed)
          /\ msgChan # <<>>
          /\ wMsg' = [wMsg EXCEPT ![w] = Head(msgChan)]
          /\ msgChan' = ChanRecv(msgChan)
          /\ log' = Logged(Head(msgChan), "recv")
          /\ wPc' = [wPc EXCEPT ![w] = "add"]
    /\ UNCHANGED <<mainPc, startRet, ctxCancelled, msgChanClosed,
                   stopReceiving, stopChan, retry, delivered, handlerMsg,
                   panicked, wErr, processingWG, watcherPc, stopPc, pubVars,
                   wResCtx, session>>

\* (mutant) a worker that starts consumeOne without counting itself in
WorkerAddUncounted(w) ==
    /\ ~panicked
    /\ wPc[w] = "add"
    /\ wPc' = [wPc EXCEPT ![w] = "consume"]
    /\ UNCHANGED <<mainPc, startRet, ctxCancelled, msgChan, msgChanClosed,
                   stopReceiving, stopChan, retry, delivered, handlerMsg,
                   panicked, wMsg, wErr, processingWG, log, watcherPc,
                   stopPc, pubVars, wResCtx, session>>

\* b.processingWG.Add(1)
WorkerAdd(w) ==
    /\ ~panicked
    /\ wPc[w] = "add"
    /\ processingWG' = processingWG + 1
    /\ wPc' = [wPc EXCEPT ![w] = "consume"]
    /\ UNCHANGED <<mainPc, startRet, ctxCancelled, msgChan, msgChanClosed,
                   stopReceiving, stopChan, retry, delivered, handlerMsg,
                   panicked, wMsg, wErr, log, watcherPc, stopPc, pubVars,
                   wResCtx, session>>

\* (mutant) the workers handed the cancellable context of the receive loop
WorkerCtxOfReceiveLoop == "ctx"

\* the context a worker passes to consumeOne: context.Background(); "ctx"
\* is the cancellable context of the receive loop
WorkerCtx == "background"

\* ctx.Err() != nil: only the receive loop's context is ever cancelled
CtxDone(c) == c = "ctx" /\ ctxCancelled

\* the context a resolution call was issued with
ResolutionCtx(c) == <<[ctx |-> c]>>

\* (mutant) a worker that ends when a resolution call returns an error
AfterConsumeOneStopsOnError(resErr) ==
    IF resErr # "nil" THEN "exited" ELSE "done"

\* the worker after consumeOne returned resErr, the error of the resolution
\* call: the return value is discarded, processingWG.Done() comes next
AfterConsumeOne(resErr) == "done"

\* what a resolution call can return
ResolutionResults == {"nil", "err"}

\* where the worker can be after consumeOne returned, over every result of
\* the resolution call
AfterResolution == {AfterConsumeOne(resErr) : resErr \in ResolutionResults}

\* consumeOne: the length check, the decode and the registration lookup, then
\* either the resolution call, with any result, or the call of
\* taskProcessor.Process
consumeOne(w) ==
    /\ ~panicked
    /\ wPc[w] = "consume"
    /\ log' = Logged(wMsg[w], ConsumeDecision(Data(wMsg[w])))
    /\ IF ConsumeDecision(Data(wMsg[w])) = "Process"
       THEN /\ wPc' = [wPc EXCEPT ![w] = "process"]
            /\ UNCHANGED wResCtx
       ELSE /\ \E pc \in AfterResolution : wPc' = [wPc EXCEPT ![w] = pc]
            /\ wResCtx' = [wResCtx EXCEPT ![w] = ResolutionCtx(WorkerCtx)]
    /\ UNCHANGED <<mainPc, startRet, ctxCancelled, msgChan, msgChanClosed,
                   stopReceiving, stopChan, retry, delivered, handlerMsg,
                   panicked, wMsg, wErr, processingWG, watcherPc, stopPc,
                   pubVars, session>>

\* taskProcessor.Process(sig) returns err
ProcessReturn(w, err) ==
    /\ ~panicked
    /\ wPc[w] = "process"
    /\ wErr' = [wErr EXCEPT ![w] = err]
    /\ log' = Logged(wMsg[w], err)
    /\ wPc' = [wPc EXCEPT ![w] = "resolve"]
    /\ UNCHANGED <<mainPc, startRet, ctxCancelled, msgChan, msgChanClosed,
                   stopReceiving, stopChan, retry, delivered, handlerMsg,
                   panicked, wMsg, processingWG, watcherPc, stopPc, pubVars,
                   wResCtx, session>>

\* msg.Abandon(ctx) or msg.Complete(ctx) after Process, with any result
ResolveProcessed(w) ==
    /\ ~panicked
    /\ wPc[w] = "resolve"
    /\ log' = Logged(wMsg[w], AfterProcess(wErr[w]))
    /\ wErr' = [wErr EXCEPT ![w] = "none"]
    /\ wResCtx' = [wResCtx EXCEPT ![w] = ResolutionCtx(WorkerCtx)]
    /\ \E pc \in AfterResolution : wPc' = [wPc EXCEPT ![w] = pc]
    /\ UNCHANGED <<mainPc, startRet, ctxCancelled, msgChan, msgChanClosed,
                   stopReceiving, stopChan, retry, delivered, handlerMsg,
                   panicked, wMsg, processingWG, watcherPc, stopPc, pubVars,
                   session>>

\* b.processingWG.Done()
WorkerDone(w) ==
    /\ ~panicked
    /\ wPc[w] = "done"
    /\ processingWG' = processingWG - 1
    /\ wMsg' = [wMsg EXCEPT ![w] = NoMsg]
    /\ wResCtx' = [wResCtx EXCEPT ![w] = <<>>]
    /\ wPc' = [wPc EXCEPT ![w] = "recv"]
    /\ UNCHANGED <<mainPc, startRet, ctxCancelled, msgChan, msgChanClosed,
                   stopReceiving, stopChan, retry, delivered, handlerMsg,
                   panicked, wErr, log, watcherPc, stopPc, pubVars, session>>

\* ----------------------------------------------------------- StopConsuming
\* b.Broker.StopConsuming(): no retry from now on, close the stop channel
StopConsuming ==
    /\ ~panicked
    /\ stopPc = "idle"
    /\ retry' = FALSE
    /\ stopChan' = "closed"
    /\ stopPc' = "waitReceiving"
    /\ UNCHANGED <<mainPc, startRet, ctxCancelled, msgChan, msgChanClosed,
                   stopReceiving, delivered, handlerMsg, panicked, wPc, wMsg,
                   wErr, processingWG, log, watcherPc, pubVars,
                   wResCtx, session>>

\* <-b.stopReceiving
StopAwaitReceiving ==
    /\ ~panicked
    /\ stopPc = "waitReceiving"
    /\ stopReceiving = "closed"
    /\ stopPc' = "waitWG"
    /\ UNCHANGED <<mainPc, startRet, ctxCancelled, msgChan, msgChanClosed,
                   stopReceiving, stopChan, retry, delivered, handlerMsg,
                   panicked, wPc, wMsg, wErr, processingWG, log, watcherPc,
                   pubVars,
                   wResCtx, session>>

\* b.processingWG.Wait(), then StopConsuming returns
StopAwaitProcessing ==
    /\ ~panicked
    /\ stopPc = "waitWG"
    /\ processingWG = 0
    /\ stopPc' = "returned"
    /\ UNCHANGED <<mainPc, startRet, ctxCancelled, msgChan, msgChanClosed,
                   stopReceiving, stopChan, retry, delivered, handlerMsg,
                   panicked, wPc, wMsg, wErr, processingWG, log, watcherPc,
                   pubVars,
                   wResCtx, session>>

\* --------------------------------------------------------- specifications
WorkerStep(w) ==
    \/ WorkerRecv(w)
    \/ WorkerAdd(w)
    \/ consumeOne(w)
    \/ \E err \in {"nil", "err"} : ProcessReturn(w, err)
    \/ ResolveProcessed(w)
    \/ WorkerDone(w)

Next ==
    \/ \E ok \in BOOLEAN : StartConsuming(ok)
    \/ ReceiveCall
    \/ \E data \in Payloads : Deliver(data)
    \/ concurrentHandler
    \/ \E err \in {"nil", "err"} : ReceiveReturn(err)
    \/ CloseStopReceiving
    \/ CloseMsgChan
    \/ StartReturn
    \/ Watcher
    \/ \E w \in Workers : WorkerStep(w)
    \/ StopConsuming
    \/ StopAwaitReceiving
    \/ StopAwaitProcessing

Spec == Init /\ [][Next]_vars

\* Every started goroutine keeps running and every call it makes returns.
\* The caller's decisions (to start, to stop) and the transport's deliveries
\* are not forced.
Fairness ==
    /\ WF_vars(ReceiveCall)
    /\ WF_vars(\E err \in {"nil", "err"} : ReceiveReturn(err))
    /\ WF_vars(concurrentHandler)
    /\ WF_vars(CloseStopReceiving)
    /\ WF_vars(CloseMsgChan)
    /\ WF_vars(StartReturn)
    /\ WF_vars(Watcher)
    /\ \A w \in Workers : WF_vars(WorkerStep(w))
    /\ WF_vars(StopAwaitReceiving)
    /\ WF_vars(StopAwaitProcessing)

FairSpec == Spec /\ Fairness

\* --------------------------------------------------------------- pipeline
\* The consumption pipeline alone: StopConsuming raises the stop signal, and
\* what its caller does afterwards (the two waits) is left out.
PipelineNext ==
    \/ \E ok \in BOOLEAN : StartConsuming(ok)
    \/ ReceiveCall
    \/ \E data \in Payloads : Deliver(data)
    \/ concurrentHandler
    \/ \E err \in {"nil", "err"} : ReceiveReturn(err)
    \/ CloseStopReceiving
    \/ CloseMsgChan
    \/ StartReturn
    \/ Watcher
    \/ \E w \in Workers : WorkerStep(w)
    \/ StopConsuming

PipelineSpec == Init /\ [][PipelineNext]_vars

\* --------------------------------------------------------------- sessions
\* every worker left its range loop and nothing is buffered
Drained ==
    /\ msgChanClosed
    /\ msgChan = <<>>
    /\ \A w \in Workers : wPc[w] = "exited"

\* The caller of StartConsuming calls it again on the same broker after it
\* returned (true, nil), once the workers of the ended session have left
\* their loops and no handler invocation of it is pending.
Retry ==
    /\ ~panicked
    /\ mainPc = "returned"
    /\ startRet # <<>>
    /\ startRet[1].retry
    /\ ~startRet[1].err
    /\ Drained
    /\ handlerMsg = NoMsg
    /\ session < MaxSessions
    /\ mainPc' = "idle"
    /\ UNCHANGED <<startRet, ctxCancelled, msgChan, msgChanClosed,
                   stopReceiving, stopChan, retry, delivered, handlerMsg,
                   panicked, wPc, wMsg, wErr, processingWG, log, watcherPc,
                   stopPc, pubVars, wResCtx, session>>

SessionNext ==
    \/ Next
    \/ Retry

SessionSpec == Init /\ [][SessionNext]_vars

\* ------------------------------------------------------------------ flood
\* A session under load: the transport delivers enough messages, all of a
\* registered task, to occupy every worker, fill the buffer and keep one
\* more handler invocation pending; no stop signal, no return of Receive.
FloodMsgs == 2 * Concurrency + 1

FloodIds == 1..FloodMsgs

FloodInit == InitWith(FloodIds)

FloodDeliver == DeliverUpTo(<<"{", "add", "true", "}">>, FloodMsgs)

FloodNext ==
    \/ StartConsuming(TRUE)
    \/ ReceiveCall
    \/ FloodDeliver
    \/ concurrentHandler
    \/ \E w \in Workers : WorkerStep(w)

FloodSpec == FloodInit /\ [][FloodNext]_vars

\* ------------------------------------------------------------------ Publish
\* tasks.Signature: the fields Publish reads; ETA is <<>> (nil) or <<t>>
Signatures ==
    [UUID : {"u1", "u2"},
     Name : {"add"},
     RoutingKey : {"", "q2"},
     ETA : {<<>>} \cup {<<t>> : t \in 0..MaxTime},
     IgnoreWhenTaskNotRegistered : {FALSE}]

\* cnf.DefaultQueue
DefaultQueue == "q1"

\* b.AdjustRoutingKey(sig): an empty routing key becomes the default queue
AdjustRoutingKey(sig) ==
    IF sig.RoutingKey # "" THEN sig
    ELSE [sig EXCEPT !.RoutingKey = DefaultQueue]

\* json.Marshal(sig), as the token sequence Decode reads: the name, the
\* ignore flag and the routing key
Marshal(sig) ==
    <<"{", sig.Name,
      IF sig.IgnoreWhenTaskNotRegistered THEN "true" ELSE "false",
      sig.RoutingKey, "}">>

\* (mutant) an ETA equal to the current time scheduled as well
ShouldScheduleNotBefore(eta, now) == eta # <<>> /\ eta[1] >= now

\* sig.ETA != nil && sig.ETA.After(now)
ShouldSchedule(eta, now) == eta # <<>> /\ eta[1] > now

\* servicebus.NewMessage(sigMarshaled), msg.ID = sig.UUID and, when the ETA is
\* in the future, msg.ScheduleAt(*sig.ETA)
NewMessage(sig, now) ==
    [ID |-> sig.UUID,
     Data |-> Marshal(sig),
     ScheduledEnqueueTime |-> IF ShouldSchedule(sig.ETA, now)
                              THEN sig.ETA ELSE <<>>]

\* (mutant) a failed send attempted a second time
SendAttemptsRetried(msg, marshalOk, sendOk) ==
    IF ~marshalOk THEN <<>>
    ELSE IF sendOk THEN <<msg>> ELSE <<msg, msg>>

\* the calls of b.publishQueue.Send(ctx, msg) one Publish makes: none after a
\* marshal error, one otherwise
SendAttempts(msg, marshalOk, sendOk) ==
    IF ~marshalOk THEN <<>> ELSE <<msg>>

\* One call of Publish.  arg is the signature as passed, sig the signature
\* after AdjustRoutingKey, sends the messages handed to b.publishQueue.Send,
\* results what each Send returned, err what Publish returned.
Publish(sig, marshalOk, sendOk) ==
    /\ Len(published) < MaxPublish
    /\ LET adjusted == AdjustRoutingKey(sig)
           sends == SendAttempts(NewMessage(adjusted, clock), marshalOk,
                                 sendOk)
       IN published' = Append(published,
             [arg |-> sig,
              sig |-> adjusted,
              now |-> clock,
              marshalOk |-> marshalOk,
              sends |-> sends,
              results |-> [j \in 1..Len(sends) |->
                              IF sendOk THEN "nil" ELSE "err"],
              err |-> IF ~marshalOk THEN "marshal"
                      ELSE IF ~sendOk THEN "send" ELSE "nil"])
    /\ UNCHANGED <<clock, consVars>>

\* time passes
Tick ==
    /\ clock < MaxTime
    /\ clock' = clock + 1
    /\ UNCHANGED <<published, consVars>>

PubNext ==
    \/ \E sig \in Signatures, marshalOk \in BOOLEAN, sendOk \in BOOLEAN :
          Publish(sig, marshalOk, sendOk)
    \/ Tick

PubSpec == Init /\ [][PubNext]_vars

\* ================================================================ claims
Resolutions == {"Complete", "Abandon", "DeadLetter"}

IsResolution(e) == e \in Resolutions

\* the resolution calls issued for m, in order
ResolutionsOf(m) == SelectSeq(log[m], IsResolution)

\* how often `call` was made for m
Count(m, call) == Len(SelectSeq(log[m], LAMBDA e : e = call))

Resolved(m) == ResolutionsOf(m) # <<>>

\* messages handed to the arrival handler
Delivered == 1..Len(delivered)

\* messages whose send on msgChan completed
Accepted == Delivered \ {handlerMsg}

RECURSIVE Total(_, _)
\* how often `call` was made over the messages of S
Total(S, call) ==
    IF S = {} THEN 0
    ELSE LET m == CHOOSE x \in S : TRUE
         IN Count(m, call) + Total(S \ {m}, call)

Undecodable(m) == Len(Data(m)) = 0 \/ ~Decode(Data(m)).ok

Unregistered(m) ==
    ~Undecodable(m) /\ Decode(Data(m)).Name \notin RegisteredTasks

Registered(m) ==
    ~Undecodable(m) /\ Decode(Data(m)).Name \in RegisteredTasks

Flagged(m) == Decode(Data(m)).IgnoreWhenTaskNotRegistered

\* C1: once StopConsuming has returned, the in-flight counter is zero, the
\* dispatch queue holds no undispatched message and no worker holds a message
\* it still has to resolve.
C1_QuiescentAfterStop ==
    stopPc = "returned" =>
        /\ processingWG = 0
        /\ msgChan = <<>>
        /\ \A w \in Workers : wMsg[w] = NoMsg

\* C2: when StartConsuming has returned, the dispatch queue is empty, no
\* worker is inside consumeOne and every accepted message has been resolved.
C2_DrainedAtStartReturn ==
    mainPc = "returned" =>
        /\ msgChan = <<>>
        /\ \A w \in Workers : wMsg[w] = NoMsg
        /\ \A m \in Accepted : Resolved(m)

\* C3: no message receives two resolution calls, no message is taken from the
\* dispatch queue twice or held by two workers, and a resolved message was
\* taken exactly once.
C3_AtMostOneResolution ==
    \A m \in MsgIds :
        /\ Len(ResolutionsOf(m)) <= 1
        /\ Count(m, "recv") <= 1
        /\ Cardinality({w \in Workers : wMsg[w] = m}) <= 1
        /\ Resolved(m) => Count(m, "recv") = 1

\* two workers hold different messages at once, one of them already resolved
C3_Witness ==
    /\ wMsg[1] # NoMsg
    /\ wMsg[2] # NoMsg
    /\ wMsg[1] # wMsg[2]
    /\ Resolved(wMsg[1])
    /\ wPc[2] = "consume"

\* C4: under fair scheduling of the workers, with every Process call
\* returning, every message accepted by the arrival handler is eventually
\* resolved, also when it is still queued or held by a worker at the time
\* the dispatch channel is closed.
C4_AcceptedEventuallyResolved ==
    \A m \in MsgIds : (m \in Accepted) ~> Resolved(m)

\* C5: once the stop signal has fired during a running session,
\* StopConsuming eventually returns (or the process has been ended by a
\* panic).
C5_StopEventuallyReturns ==
    (stopPc # "idle" /\ mainPc \in {"loop", "receiving"})
        ~> (stopPc = "returned" \/ panicked)

\* C6: a message with an empty payload, or with a payload that does not
\* decode, is only ever dead-lettered, and Process is never invoked for it.
C6_UndecodableDeadLettered ==
    \A m \in Delivered :
        Undecodable(m) =>
            /\ ResolutionsOf(m) \in {<<>>, <<"DeadLetter">>}
            /\ Count(m, "Process") = 0
            /\ Count(m, "nil") + Count(m, "err") = 0

\* an empty and an undecodable message have both been dead-lettered
C6_Witness ==
    \E m1, m2 \in Delivered :
        /\ Data(m1) = <<>>
        /\ Data(m2) = <<"x">>
        /\ ResolutionsOf(m1) = <<"DeadLetter">>
        /\ ResolutionsOf(m2) = <<"DeadLetter">>

\* C7: for a decoded message whose task name is not registered, Process is
\* never invoked and the resolution is abandon when the ignore flag is false
\* and dead-letter when it is true.
C7_UnregisteredByFlag ==
    \A m \in Delivered :
        Unregistered(m) =>
            /\ Count(m, "Process") = 0
            /\ ResolutionsOf(m) \in
                   {<<>>, IF Flagged(m) THEN <<"DeadLetter">>
                                        ELSE <<"Abandon">>}

\* an unregistered message of each kind has been resolved
C7_Witness ==
    \E m1, m2 \in Delivered :
        /\ Unregistered(m1) /\ Flagged(m1)
        /\ Unregistered(m2) /\ ~Flagged(m2)
        /\ ResolutionsOf(m1) = <<"DeadLetter">>
        /\ ResolutionsOf(m2) = <<"Abandon">>

\* C8: for a decoded message whose task name is registered, Process is
\* invoked at most once, exactly once by the time of the resolution, and the
\* resolution follows its result: one Complete after nil, one Abandon after
\* an error, never a DeadLetter.
C8_RegisteredFollowsProcess ==
    \A m \in Delivered :
        Registered(m) =>
            /\ Count(m, "Process") <= 1
            /\ Count(m, "DeadLetter") = 0
            /\ Resolved(m) =>
                   \/ log[m] = <<"recv", "Process", "nil", "Complete">>
                   \/ log[m] = <<"recv", "Process", "err", "Abandon">>

\* one registered message was completed and another one abandoned
C8_Witness ==
    \E m1, m2 \in Delivered :
        /\ Registered(m1) /\ Registered(m2)
        /\ log[m1] = <<"recv", "Process", "nil", "Complete">>
        /\ log[m2] = <<"recv", "Process", "err", "Abandon">>

\* C9: once the pipeline has drained, the number of Complete calls is the
\* number of registered messages whose Process succeeded, the number of
\* Abandon calls is the number of unregistered messages with the flag unset
\* plus the registered ones whose Process failed, and the number of
\* DeadLetter calls is the number of empty, undecodable and
\* unregistered-with-flag messages, whatever the interleaving was.
C9_OutcomeCounts ==
    Drained =>
        /\ Total(MsgIds, "Complete") =
               Cardinality({m \in Accepted :
                               Registered(m) /\ Count(m, "nil") > 0})
        /\ Total(MsgIds, "Abandon") =
               Cardinality({m \in Accepted : Unregistered(m) /\ ~Flagged(m)})
               + Cardinality({m \in Accepted :
                                 Registered(m) /\ Count(m, "err") > 0})
        /\ Total(MsgIds, "DeadLetter") =
               Cardinality({m \in Accepted :
                               Undecodable(m)
                               \/ (Unregistered(m) /\ Flagged(m))})

\* a full batch drained after the stop signal, with an abandoned unregistered
\* message and a completed one
C9_Witness ==
    /\ Drained
    /\ stopChan = "closed"
    /\ Cardinality(Accepted) = MaxMsgs
    /\ \E m \in Accepted : Unregistered(m) /\ ~Flagged(m)
    /\ Total(MsgIds, "Abandon") >= 1
    /\ Total(MsgIds, "Complete") >= 1
    /\ Total(MsgIds, "DeadLetter") = 0

\* C10: every message Publish hands to the transport is marked for scheduled
\* delivery, at the ETA, exactly when the ETA is set and strictly after the
\* time Publish read; its identity is the task's UUID in both cases.
C10_ScheduledIffFutureETA ==
    \A i \in 1..Len(published) :
        \A j \in 1..Len(published[i].sends) :
            LET p == published[i]
                msg == p.sends[j]
            IN /\ (msg.ScheduledEnqueueTime # <<>>) <=>
                      (p.sig.ETA # <<>> /\ p.sig.ETA[1] > p.now)
               /\ msg.ScheduledEnqueueTime \in {<<>>, p.sig.ETA}
               /\ msg.ID = p.sig.UUID

\* one message with a future ETA was scheduled, and one whose ETA equals the
\* current time was sent for immediate delivery
C10_Witness ==
    \E i, k \in 1..Len(published) :
        /\ published[i].sends # <<>>
        /\ published[k].sends # <<>>
        /\ published[i].sig.ETA # <<>>
        /\ published[i].sig.ETA[1] > published[i].now
        /\ published[i].sends[1].ScheduledEnqueueTime = published[i].sig.ETA
        /\ published[k].sig.ETA = <<published[k].now>>
        /\ published[k].sends[1].ScheduledEnqueueTime = <<>>

\* C11: a Publish call whose encoding fails returns an error and makes no
\* send attempt; every other call makes exactly one send attempt, returns the
\* error of a failed send and nil after a successful one; and in every call
\* the routing key is adjusted before the encoding, so the encoded task
\* carries the adjusted key.
C11_OneSendAttempt ==
    \A i \in 1..Len(published) :
        LET p == published[i]
            key == IF p.arg.RoutingKey = "" THEN DefaultQueue
                   ELSE p.arg.RoutingKey
        IN /\ p.sig.RoutingKey = key
           /\ ~p.marshalOk => p.sends = <<>> /\ p.err = "marshal"
           /\ p.marshalOk =>
                  /\ Len(p.sends) = 1
                  /\ p.err = (IF p.results[1] = "err" THEN "send" ELSE "nil")
                  /\ p.sends[1].Data[4] = key

\* one call failed to encode and sent nothing, another call's only send
\* failed; both were passed an empty routing key
C11_Witness ==
    \E i, k \in 1..Len(published) :
        /\ published[i].arg.RoutingKey = ""
        /\ published[k].arg.RoutingKey = ""
        /\ ~published[i].marshalOk
        /\ published[i].sends = <<>>
        /\ published[k].marshalOk
        /\ published[k].results = <<"err">>
        /\ published[k].err = "send"

\* C13: no send is attempted on the dispatch channel after it has been
\* closed: when msgChan is closed no invocation of the arrival handler is
\* still waiting to send.
C13_NoSendOnClosedChannel ==
    ~(msgChanClosed /\ handlerMsg # NoMsg) /\ ~panicked

\* C14: once the receive context has been cancelled, a return of the receive
\* primitive ends the receive loop, whether it returns nil or an error.
C14_LoopExitsAfterCancel ==
    [][(ctxCancelled /\ mainPc = "receiving" /\ mainPc' # "receiving")
          => mainPc' = "closeStop"]_vars

\* a worker between processingWG.Add(1) and processingWG.Done()
InConsumeOne(w) == wPc[w] \in {"consume", "process", "resolve", "done"}

\* C15: every resolution call is issued with a context that is not
\* cancelled: the context passed to Complete, Abandon or DeadLetter is not
\* the receive loop's context, and the cancellation of the receive loop's
\* context by the stop signal does not cancel it.
C15_ResolutionCtxNotCancelled ==
    \A w \in Workers :
        wResCtx[w] # <<>> =>
            /\ ~CtxDone(wResCtx[w][1].ctx)
            /\ wResCtx[w][1].ctx # "ctx"

\* the stop signal has cancelled the receive loop's context, and the
\* context of a worker's resolution call is live
C15_Witness ==
    \E w \in Workers :
        /\ stopChan = "closed"
        /\ ctxCancelled
        /\ wResCtx[w] # <<>>
        /\ ~CtxDone(wResCtx[w][1].ctx)
        /\ Resolved(wMsg[w])

\* C16: for a registered message every resolution call comes directly after
\* the return of the Process call for the same message, and the in-flight
\* counter is at least one from the worker's increment to its decrement, so
\* at the instant of every resolution call.
C16_ResolutionAfterProcess ==
    /\ \A m \in Delivered :
           \A i \in 1..Len(log[m]) :
               (IsResolution(log[m][i]) /\ Registered(m)) =>
                   /\ i > 2
                   /\ log[m][i - 2] = "Process"
                   /\ log[m][i - 1] \in {"nil", "err"}
    /\ \A w \in Workers :
           (InConsumeOne(w) \/ wResCtx[w] # <<>>) => processingWG >= 1

\* a worker has just resolved a registered message after its Process call
\* returned, and has not yet decremented the counter
C16_Witness ==
    \E w \in Workers :
        /\ wPc[w] = "done"
        /\ wResCtx[w] # <<>>
        /\ Registered(wMsg[w])
        /\ log[wMsg[w]] = <<"recv", "Process", "err", "Abandon">>
        /\ processingWG >= 1

\* C18: a per-message failure never ends a worker or StartConsuming: a
\* worker leaves its loop only when the dispatch channel is closed and
\* empty, never while it holds a message, whatever the resolution call
\* returned, and once the workers were started StartConsuming returns a nil
\* error.
C18_FailuresStayPerMessage ==
    /\ \A w \in Workers :
           wPc[w] = "exited" =>
               /\ msgChanClosed
               /\ wMsg[w] = NoMsg
               /\ wResCtx[w] = <<>>
    /\ startRet # <<>> =>
           (startRet[1].err <=> \A w \in Workers : wPc[w] = "none")

\* one message was dead-lettered and another abandoned, and afterwards every
\* worker waits for the next message while the receive loop is running
C18_Witness ==
    /\ mainPc = "receiving"
    /\ \A w \in Workers : wPc[w] = "recv"
    /\ \E m1, m2 \in Delivered :
           /\ ResolutionsOf(m1) = <<"DeadLetter">>
           /\ ResolutionsOf(m2) = <<"Abandon">>

\* C12 (as stated): an invocation of the arrival handler can always complete
\* its enqueue while every worker is inside a Process call, also when the
\* dispatch queue already holds as many messages as there are workers.
C12_NeverWaitsOnProcess ==
    (handlerMsg # NoMsg /\ \A w \in Workers : wPc[w] = "process")
        => ENABLED concurrentHandler

\* C12 (amended): an invocation of the arrival handler can complete its
\* enqueue whenever the dispatch queue holds fewer messages than there are
\* workers, whatever the workers are doing; it waits only on a full queue.
C12_WaitsOnlyOnFullQueue ==
    (handlerMsg # NoMsg /\ Len(msgChan) < Concurrency)
        => ENABLED concurrentHandler

\* every worker is inside Process, one message is already queued behind
\* them and the next invocation of the handler can enqueue at once
C12_Witness ==
    /\ handlerMsg # NoMsg
    /\ \A w \in Workers : wPc[w] = "process"
    /\ msgChan # <<>>
    /\ Len(msgChan) < Concurrency
    /\ ENABLED concurrentHandler

\* C17: the dispatch queue never holds more messages than there are
\* workers, the in-flight counter is the number of workers between their
\* increment and their decrement, so between zero and the number of workers,
\* and the workers hold distinct messages, one each at most.
C17_CapacityInvariants ==
    /\ Len(msgChan) <= Concurrency
    /\ processingWG = Cardinality({w \in Workers : InConsumeOne(w)})
    /\ processingWG >= 0
    /\ processingWG <= Concurrency
    /\ Cardinality({w \in Workers : wPc[w] = "process"}) <= Concurrency
    /\ \A w1, w2 \in Workers :
           (w1 # w2 /\ wMsg[w1] # NoMsg) => wMsg[w1] # wMsg[w2]

\* every bound is met at once: a full queue, every worker inside Process and
\* one more message waiting in the handler
C17_Witness ==
    /\ Len(msgChan) = Concurrency
    /\ processingWG = Concurrency
    /\ \A w \in Workers : wPc[w] = "process"
    /\ handlerMsg # NoMsg

\* C19: over any sequence of sessions on one broker, StartConsuming never
\* comes to close a drain signal that is already closed.
C19_DrainSignalRaisedOnce ==
    ~(mainPc = "closeStop" /\ stopReceiving = "closed")

\* C20: a StopConsuming that waits for the drain signal after StartConsuming
\* returned a setup error eventually returns.
C20_StopReturnsAfterSetupError ==
    (/\ mainPc = "returned"
     /\ startRet # <<>>
     /\ startRet[1].err
     /\ stopPc = "waitReceiving") ~> (stopPc = "returned")

====
